---- MODULE Spec2Model ----
(***************************************************************************)
(* Vector search and filtering layer of semantic-insights-poc:             *)
(* VectorStore (local JSON file / Pinecone index behind one facade) and    *)
(* EnhancedSemanticSearchEngine, modelled from src/src/vector_store.py and *)
(* src/src/embedding_generator.py, and SemanticSearchEngine, the engine of *)
(* the search page, from src/src/search_engine.py and src/app.py.          *)
(* TranscriptProcessor, from src/src/transcript_processor.py, has a        *)
(* specification of its own (ExtractSpec), as have a bulk load of the      *)
(* remote index (BulkSpec) and two callers of the Local Backend running    *)
(* at once (RaceSpec).                                                     *)
(*                                                                         *)
(* Python strings are sequences of one-character strings, so that          *)
(* str.lower(), str.split() and the `in` substring test are computed.      *)
(* Python None is the one-element sequence None; embedding components and  *)
(* similarity scores are integers (the float arithmetic of the code is     *)
(* exact on them).                                                         *)
(***************************************************************************)
EXTENDS Integers, Sequences, FiniteSets, TLC

VARIABLES
    constructed,        \* EnhancedSemanticSearchEngine.__init__ has returned
    use_pinecone,       \* VectorStore.use_pinecone (truthiness)
    has_index,          \* VectorStore.index has been assigned
    has_local_path,     \* VectorStore.local_embeddings_path has been assigned
    api_available,      \* EmbeddingGenerator.api_available
    file,               \* the document at Config.EMBEDDINGS_PATH
    index,              \* the vectors held by the remote index
    sse_loaded,         \* SemanticSearchEngine.__init__ has returned
    sse_embeddings_data,\* SemanticSearchEngine.embeddings_data
    sse_embedding_dim,  \* SemanticSearchEngine.embedding_generator.embedding_dim
    tp_api_available,   \* TranscriptProcessor.api_available
    insights_file,      \* the document at Config.INSIGHTS_PATH
    writers,            \* two callers of the Local Backend running at once:
                        \* each one's call and how far it has got
    ret                 \* the call that has just returned: operation, arguments,
                        \* outcome; [op |-> "none"] once the caller has taken it

vars == <<constructed, use_pinecone, has_index, has_local_path, api_available,
          file, index, sse_loaded, sse_embeddings_data, sse_embedding_dim,
          tp_api_available, insights_file, writers, ret>>

\* the state of a SemanticSearchEngine instance
sse_vars == <<sse_loaded, sse_embeddings_data, sse_embedding_dim>>

\* the state of a TranscriptProcessor and the file it writes
tp_vars == <<tp_api_available, insights_file>>

----------------------------------------------------------------------------
(* Bounds of the model *)

MaxRecords == 2
MaxTopK == 2
MaxNegTopK == 2
MaxTranscripts == 3
MaxBatches == 2
MaxPreloaded == 2

----------------------------------------------------------------------------
(* Python values *)

None == <<"None">>

NoneInt == 0 - 1

UpperLetters == <<"A","B","C","D","E","F","G","H","I","J","K","L","M",
                  "N","O","P","Q","R","S","T","U","V","W","X","Y","Z">>

LowerLetters == <<"a","b","c","d","e","f","g","h","i","j","k","l","m",
                  "n","o","p","q","r","s","t","u","v","w","x","y","z">>

LowerChar(c) ==
    IF \E i \in 1..Len(UpperLetters) : UpperLetters[i] = c
    THEN LowerLetters[CHOOSE i \in 1..Len(UpperLetters) : UpperLetters[i] = c]
    ELSE c

\* str.lower()
Lower(s) == [i \in 1..Len(s) |-> LowerChar(s[i])]

\* dict.get(key, default)
Get(d, key, default) == IF key \in DOMAIN d THEN d[key] ELSE default

Min(a, b) == IF a <= b THEN a ELSE b

Max(a, b) == IF a >= b THEN a ELSE b

\* seq[:k], negative k counting from the end
Slice(s, k) ==
    IF k >= 0 THEN SubSeq(s, 1, Min(k, Len(s)))
    ELSE SubSeq(s, 1, Max(Len(s) + k, 0))

\* a local variable: v is computed once and F applied to it
Bind(v, F(_)) == CHOOSE y \in {F(x) : x \in {v}} : TRUE

\* the outcome of a Python call: a value, or an exception
Ok(v) == [raised |-> FALSE, value |-> v]

Raised == [raised |-> TRUE, value |-> <<>>]

----------------------------------------------------------------------------
(* The records, queries and filters the calls are made with *)

EmbeddingRecord(id, participant, embedding, metadata) ==
    [id |-> id, participant |-> participant, searchable_text |-> <<"t">>,
     embedding |-> embedding, metadata |-> metadata]

\* a complete record; business_focus "Rx" is stored with a capital
RecA == EmbeddingRecord(<<"a">>, <<"A","l">>, <<1, 0>>,
            [primary_goal |-> <<"a","b">>, main_blocker |-> <<"b">>,
             business_focus |-> <<"R","x">>, mindset_pattern |-> <<"a">>,
             urgency_level |-> 3])

\* same direction as RecA, twice as long
RecB == EmbeddingRecord(<<"b">>, <<"B","o">>, <<2, 0>>,
            [primary_goal |-> <<"b">>, main_blocker |-> <<"a">>,
             business_focus |-> <<"r","x">>, mindset_pattern |-> <<"b">>,
             urgency_level |-> 5])

\* metadata without mindset_pattern and urgency_level
RecC == EmbeddingRecord(<<"c">>, <<"C","y">>, <<0, 1>>,
            [primary_goal |-> <<"c">>, main_blocker |-> <<"b">>,
             business_focus |-> <<"t","y">>])

\* an embedding of another dimension
RecD == EmbeddingRecord(<<"d">>, <<"D","i">>, <<1>>,
            [primary_goal |-> <<"a">>, main_blocker |-> <<"c">>,
             business_focus |-> <<"r","x">>, mindset_pattern |-> <<"a">>,
             urgency_level |-> 4])

\* what process_all_insights stores for an insight without these keys
RecE == EmbeddingRecord(<<"e">>, <<"E","d">>, <<1, 0>>,
            [primary_goal |-> None, main_blocker |-> None,
             business_focus |-> None, mindset_pattern |-> None,
             urgency_level |-> NoneInt])

\* a record without a vector, as a file written by hand or by another tool
\* can hold
RecF == EmbeddingRecord(<<"f">>, <<"F","y">>, <<>>,
            [primary_goal |-> <<"a">>, main_blocker |-> <<"b">>,
             business_focus |-> <<"r","x">>, mindset_pattern |-> <<"a">>,
             urgency_level |-> 3])

AllRecords == {RecA, RecB, RecC, RecD, RecE}

RECURSIVE SeqsUpTo(_, _)
SeqsUpTo(S, n) ==
    IF n = 0 THEN {<<>>}
    ELSE LET shorter == SeqsUpTo(S, n - 1)
         IN  shorter \cup {Append(s, x) : s \in shorter, x \in S}

RecordLists == SeqsUpTo(AllRecords, MaxRecords)

QueryVectors == {<<1, 0>>, <<0, 1>>, <<1>>}

TopKs == (0 - MaxNegTopK)..MaxTopK

NoFilter == <<>>

Filters == {NoFilter,
            [business_focus |-> <<"r","x">>],
            [urgency_level |-> 4],
            [urgency_level |-> 3],
            [participant |-> <<"a","l">>],
            [business_focus |-> <<"R","x">>, urgency_level |-> 4]}

\* the filters given to VectorStore.search directly: callers may pass keys
\* the backends do not know
StoreFilters == Filters \cup {[mindset_pattern |-> <<"a">>],
                              [mindset_pattern |-> <<"a">>, urgency_level |-> 4]}

\* the minimum urgencies given to search_by_urgency
MinUrgencies == {3, 4}

Ids == {<<"a">>, <<"b">>, <<"z">>}

----------------------------------------------------------------------------
(* The document file of the Local Backend *)

MissingFile == [exists |-> FALSE, parses |-> FALSE, data |-> <<>>]

\* a file whose content json.load rejects
CorruptFile == [exists |-> TRUE, parses |-> FALSE, data |-> <<>>]

JsonFile(data) == [exists |-> TRUE, parses |-> TRUE, data |-> data]

\* with open(path, 'r') as f: json.load(f)
ReadFile(f) == IF f.exists /\ f.parses THEN Ok(f.data) ELSE Raised

----------------------------------------------------------------------------
(* VectorStore: the Local Backend *)

\* _matches_filters; None.lower() and None < int raise
_matches_filters(item, filters) ==
    LET metadata == Get(item, "metadata", <<>>)
        focus    == Get(metadata, "business_focus", <<>>)
        urgency  == Get(metadata, "urgency_level", 3)
        name     == Get(item, "participant", <<>>)
        checkParticipant ==
            IF "participant" \in DOMAIN filters
            THEN IF name = None THEN Raised
                 ELSE IF Lower(name) # Lower(filters["participant"]) THEN Ok(FALSE)
                 ELSE Ok(TRUE)
            ELSE Ok(TRUE)
        checkUrgency ==
            IF "urgency_level" \in DOMAIN filters
            THEN IF urgency = NoneInt THEN Raised
                 ELSE IF urgency < filters["urgency_level"] THEN Ok(FALSE)
                 ELSE checkParticipant
            ELSE checkParticipant
    IN  IF "business_focus" \in DOMAIN filters
        THEN IF focus = None THEN Raised
             ELSE IF Lower(focus) # Lower(filters["business_focus"]) THEN Ok(FALSE)
             ELSE checkUrgency
        ELSE checkUrgency

\* np.dot of the two row vectors; shapes that do not align raise
Dot(q, e) ==
    LET RECURSIVE sum(_)
        sum(i) == IF i = 0 THEN 0 ELSE q[i] * e[i] + sum(i - 1)
    IN  IF Len(q) # Len(e) THEN Raised ELSE Ok(sum(Len(q)))

\* mutant of SortBySimilarity: an entry goes before the entries of equal key
SortBySimilarity_TiesReversed(pairs) ==
    LET RECURSIVE insert(_, _)
        insert(sorted, x) ==
            IF sorted = <<>> THEN <<x>>
            ELSE IF Head(sorted)[1] > x[1]
                 THEN <<Head(sorted)>> \o insert(Tail(sorted), x)
                 ELSE <<x>> \o sorted
        RECURSIVE sort(_, _)
        sort(done, rest) ==
            IF rest = <<>> THEN done
            ELSE sort(insert(done, Head(rest)), Tail(rest))
    IN  sort(<<>>, pairs)

\* list.sort(key=lambda x: x[0], reverse=True): stable, equal keys keep their order
SortBySimilarity(pairs) ==
    LET RECURSIVE insert(_, _)
        insert(sorted, x) ==
            IF sorted = <<>> THEN <<x>>
            ELSE IF Head(sorted)[1] >= x[1]
                 THEN <<Head(sorted)>> \o insert(Tail(sorted), x)
                 ELSE <<x>> \o sorted
        RECURSIVE sort(_, _)
        sort(done, rest) ==
            IF rest = <<>> THEN done
            ELSE sort(insert(done, Head(rest)), Tail(rest))
    IN  sort(<<>>, pairs)

\* the result entry _search_local builds for one (similarity, item)
LocalResult(pair) ==
    [id |-> pair[2].id, similarity_score |-> pair[1],
     participant |-> pair[2].participant, metadata |-> pair[2].metadata,
     searchable_text |-> pair[2].searchable_text]

\* mutant of FilteredData: the filtered list is not assigned back
FilteredData_NotAssigned(embeddings_data, filters) ==
    IF DOMAIN filters = {} THEN Ok(embeddings_data)
    ELSE IF \E i \in 1..Len(embeddings_data) :
                _matches_filters(embeddings_data[i], filters).raised
         THEN Raised
         ELSE Ok(embeddings_data)

\* the items of embeddings_data that pass the filters (lines 186-191)
FilteredData(embeddings_data, filters) ==
    IF DOMAIN filters = {} THEN Ok(embeddings_data)
    ELSE IF \E i \in 1..Len(embeddings_data) :
                _matches_filters(embeddings_data[i], filters).raised
         THEN Raised
         ELSE Ok(SelectSeq(embeddings_data,
                           LAMBDA item : _matches_filters(item, filters).value))

\* lines 193-216: similarities, sort, [:top_k], result entries
RankLocal(data, query_embedding, top_k) ==
    Bind([i \in 1..Len(data) |-> Dot(query_embedding, data[i].embedding)],
         LAMBDA dots :
            IF \E i \in 1..Len(dots) : dots[i].raised THEN Raised
            ELSE Bind(Slice(SortBySimilarity(
                                [i \in 1..Len(data) |-> <<dots[i].value, data[i]>>]),
                            top_k),
                      LAMBDA top : Ok([i \in 1..Len(top) |-> LocalResult(top[i])])))

\* the body of the try block of _search_local
SearchLocalBody(f, query_embedding, top_k, filters) ==
    IF ~f.exists THEN Ok(<<>>)
    ELSE IF ReadFile(f).raised THEN Raised
    ELSE IF f.data = <<>> THEN Ok(<<>>)
    ELSE Bind(FilteredData(f.data, filters),
              LAMBDA filtered :
                 IF filtered.raised THEN Raised
                 ELSE RankLocal(filtered.value, query_embedding, top_k))

\* _search_local: any exception is logged and [] returned
_search_local(f, query_embedding, top_k, filters) ==
    Bind(SearchLocalBody(f, query_embedding, top_k, filters),
         LAMBDA r : IF r.raised THEN <<>> ELSE r.value)

----------------------------------------------------------------------------
(* VectorStore: the Remote Backend.  The index is the collaborator: it keeps *)
(* one vector per id, admits a vector under a filter by exact equality and   *)
(* $gte, and ranks by cosine similarity.  A cosine is kept exactly, as the   *)
(* dot product with the two squared norms.                                    *)

BatchSize == 100

PineconeDimension == 768

\* the entry _upsert_pinecone prepares for one item; None[:500] raises
PineconeVector(item) ==
    LET m == item.metadata
        goal    == Get(m, "primary_goal", <<>>)
        blocker == Get(m, "main_blocker", <<>>)
        mindset == Get(m, "mindset_pattern", <<>>)
    IN  IF goal = None \/ blocker = None \/ mindset = None THEN Raised
        ELSE Ok([id |-> item.id, values |-> item.embedding,
                 metadata |->
                    [participant |-> item.participant,
                     primary_goal |-> Slice(goal, 500),
                     main_blocker |-> Slice(blocker, 500),
                     business_focus |-> Get(m, "business_focus", <<>>),
                     mindset_pattern |-> Slice(mindset, 300),
                     urgency_level |-> Get(m, "urgency_level", 3),
                     searchable_text |-> Slice(item.searchable_text, 1000)]])

\* mutant of Batches: each slice runs one vector into the next batch
Batches_Overlapping(vectors) ==
    LET n == (Len(vectors) + BatchSize - 1) \div BatchSize
    IN  [j \in 1..n |->
            SubSeq(vectors, (j - 1) * BatchSize + 1,
                   Min(j * BatchSize + 1, Len(vectors)))]

\* vectors[i:i + batch_size] for i in range(0, len(vectors), batch_size)
Batches(vectors) ==
    LET n == (Len(vectors) + BatchSize - 1) \div BatchSize
    IN  [j \in 1..n |->
            SubSeq(vectors, (j - 1) * BatchSize + 1,
                   Min(j * BatchSize, Len(vectors)))]

\* index.upsert(vectors=batch): a vector replaces the one with its id
\* (of two vectors of one batch with the same id the later one stays)
IndexUpsert(idx, batch) ==
    LET ids    == {batch[i].id : i \in 1..Len(batch)}
        kept   == SelectSeq(idx, LAMBDA w : w.id \notin ids)
        tagged == [i \in 1..Len(batch) |-> [at |-> i, v |-> batch[i]]]
        last   == SelectSeq(tagged, LAMBDA t :
                      \A j \in (t.at + 1)..Len(batch) : batch[j].id # t.v.id)
    IN  kept \o [i \in 1..Len(last) |-> last[i].v]

\* mutant of PineconeFilter: the participant clause is not sent
PineconeFilter_NoParticipant(filters) ==
    [k \in DOMAIN filters \cap {"business_focus", "urgency_level"} |->
        IF k = "urgency_level" THEN [gte |-> filters[k]] ELSE filters[k]]

\* the filter expression _search_pinecone sends (lines 130-137); an empty
\* expression is sent as no filter (line 144)
PineconeFilter(filters) ==
    [k \in DOMAIN filters \cap {"business_focus", "urgency_level", "participant"} |->
        IF k = "urgency_level" THEN [gte |-> filters[k]] ELSE filters[k]]

\* the index's own admission of a vector under a filter expression
IndexAdmits(v, pinecone_filter) ==
    \A k \in DOMAIN pinecone_filter :
        IF k = "urgency_level"
        THEN v.metadata[k] # NoneInt /\ v.metadata[k] >= pinecone_filter[k].gte
        ELSE v.metadata[k] = pinecone_filter[k]

Cosine(q, e) ==
    [dot |-> Dot(q, e).value, qq |-> Dot(q, q).value, ee |-> Dot(e, e).value]

\* a >= b for two cosines of non-negative vectors; a zero norm counts as 0
CosineGeq(a, b) ==
    LET za == a.qq * a.ee = 0
        zb == b.qq * b.ee = 0
    IN  IF zb THEN TRUE
        ELSE IF za THEN b.dot = 0
        ELSE a.dot * a.dot * b.qq * b.ee >= b.dot * b.dot * a.qq * a.ee

\* index.query(vector, top_k, filter): the best top_k admitted vectors; the
\* index compares only vectors of the query's dimension
IndexQuery(idx, vector, top_k, pinecone_filter) ==
    LET admitted == SelectSeq(idx, LAMBDA v :
                        /\ Len(v.values) = Len(vector)
                        /\ IndexAdmits(v, pinecone_filter))
        scored == [i \in 1..Len(admitted) |->
                      [id |-> admitted[i].id,
                       score |-> Cosine(vector, admitted[i].values),
                       metadata |-> admitted[i].metadata]]
        RECURSIVE insert(_, _)
        insert(sorted, x) ==
            IF sorted = <<>> THEN <<x>>
            ELSE IF CosineGeq(Head(sorted).score, x.score)
                 THEN <<Head(sorted)>> \o insert(Tail(sorted), x)
                 ELSE <<x>> \o sorted
        RECURSIVE sort(_, _)
        sort(done, rest) ==
            IF rest = <<>> THEN done
            ELSE sort(insert(done, Head(rest)), Tail(rest))
    IN  SubSeq(sort(<<>>, scored), 1, Min(Max(top_k, 0), Len(admitted)))

\* the result entry _search_pinecone formats for one match
PineconeResult(match) ==
    [id |-> match.id, similarity_score |-> match.score,
     participant |-> Get(match.metadata, "participant", <<>>),
     metadata |->
        [primary_goal |-> Get(match.metadata, "primary_goal", <<>>),
         main_blocker |-> Get(match.metadata, "main_blocker", <<>>),
         business_focus |-> Get(match.metadata, "business_focus", <<>>),
         mindset_pattern |-> Get(match.metadata, "mindset_pattern", <<>>),
         urgency_level |-> Get(match.metadata, "urgency_level", 3)],
     searchable_text |-> Get(match.metadata, "searchable_text", <<>>)]

\* _search_pinecone; call_ok: the query call returns
_search_pinecone(idx, query_embedding, top_k, filters, call_ok) ==
    IF ~call_ok THEN <<>>
    ELSE LET matches == IndexQuery(idx, query_embedding, top_k,
                                   PineconeFilter(filters))
         IN  [i \in 1..Len(matches) |-> PineconeResult(matches[i])]

\* VectorStore.search
StoreSearch(query_embedding, top_k, filters, call_ok) ==
    IF use_pinecone
    THEN _search_pinecone(index, query_embedding, top_k, filters, call_ok)
    ELSE _search_local(file, query_embedding, top_k, filters)

----------------------------------------------------------------------------
(* VectorStore: construction, upsert, delete, stats *)

InitFailures == {"none", "Pinecone", "list_indexes", "create_index", "Index"}

\* _init_local_storage
_init_local_storage(store) == [store EXCEPT !.has_local_path = TRUE]

\* mutant of _init_pinecone: the exception is swallowed without the fallback
_init_pinecone_NoFallback(store, fails_at) ==
    IF fails_at = "none"
    THEN [store EXCEPT !.has_index = TRUE]
    ELSE store

\* _init_pinecone; fails_at names the client call that raises, if any
_init_pinecone(store, fails_at) ==
    IF fails_at = "none"
    THEN [store EXCEPT !.has_index = TRUE]
    ELSE _init_local_storage([store EXCEPT !.use_pinecone = FALSE])

\* VectorStore.__init__; api_key is "none", "empty" or "set"
VectorStoreInit(requested, PINECONE_AVAILABLE, api_key, fails_at) ==
    LET store == [use_pinecone |-> requested /\ PINECONE_AVAILABLE /\ api_key = "set",
                  has_index |-> FALSE, has_local_path |-> FALSE]
    IN  IF store.use_pinecone
        THEN _init_pinecone(store, fails_at)
        ELSE _init_local_storage(store)

IoOutcomes == {"ok", "open_fails", "dump_fails"}

\* with open(path, 'w') as f: json.dump(data, f): open truncates the file
WriteFile(f, data, io) ==
    IF io = "ok" THEN JsonFile(data)
    ELSE IF io = "open_fails" THEN f
    ELSE CorruptFile

\* _upsert_local
_upsert_local(f, embeddings_data, io) ==
    [file |-> WriteFile(f, embeddings_data, io), value |-> io = "ok"]

\* mutant of _upsert_pinecone: a failing call leaves the index as it was
_upsert_pinecone_Rollback(idx, embeddings_data, fail_batch) ==
    IF \E i \in 1..Len(embeddings_data) : PineconeVector(embeddings_data[i]).raised
    THEN [index |-> idx, call_failed |-> FALSE, value |-> FALSE, calls |-> <<>>]
    ELSE LET vectors == [i \in 1..Len(embeddings_data) |->
                            PineconeVector(embeddings_data[i]).value]
             batches == Batches(vectors)
             sent    == IF fail_batch \in 1..Len(batches)
                        THEN fail_batch - 1 ELSE Len(batches)
             RECURSIVE send(_, _)
             send(cur, j) ==
                IF j > sent THEN cur ELSE send(IndexUpsert(cur, batches[j]), j + 1)
         IN  [index |-> IF sent < Len(batches) THEN idx ELSE send(idx, 1),
              call_failed |-> sent < Len(batches),
              value |-> sent = Len(batches), calls |-> SubSeq(batches, 1, sent)]

\* _upsert_pinecone; fail_batch is the batch whose upsert call raises, 0 for
\* none; calls lists the batches index.upsert accepted
_upsert_pinecone(idx, embeddings_data, fail_batch) ==
    IF \E i \in 1..Len(embeddings_data) : PineconeVector(embeddings_data[i]).raised
    THEN [index |-> idx, call_failed |-> FALSE, value |-> FALSE, calls |-> <<>>]
    ELSE LET vectors == [i \in 1..Len(embeddings_data) |->
                            PineconeVector(embeddings_data[i]).value]
             batches == Batches(vectors)
             sent    == IF fail_batch \in 1..Len(batches)
                        THEN fail_batch - 1 ELSE Len(batches)
             RECURSIVE send(_, _)
             send(cur, j) ==
                IF j > sent THEN cur ELSE send(IndexUpsert(cur, batches[j]), j + 1)
         IN  [index |-> send(idx, 1), call_failed |-> sent < Len(batches),
              value |-> sent = Len(batches), calls |-> SubSeq(batches, 1, sent)]

\* mutant of DeleteLocal: the first record is dropped, whatever its id
DeleteLocal_DropsFirst(f, embedding_id, io) ==
    LET loaded == ReadFile(f)
    IN  IF loaded.raised THEN [file |-> f, value |-> FALSE]
        ELSE LET kept == IF loaded.value = <<>> THEN <<>> ELSE Tail(loaded.value)
             IN  [file |-> WriteFile(f, kept, io), value |-> io = "ok"]

\* delete_by_id, local branch
DeleteLocal(f, embedding_id, io) ==
    LET loaded == ReadFile(f)
    IN  IF loaded.raised THEN [file |-> f, value |-> FALSE]
        ELSE LET kept == SelectSeq(loaded.value,
                                   LAMBDA item : item.id # embedding_id)
             IN  [file |-> WriteFile(f, kept, io), value |-> io = "ok"]

\* delete_by_id, remote branch
DeletePinecone(idx, embedding_id, call_ok) ==
    IF call_ok
    THEN [index |-> SelectSeq(idx, LAMBDA v : v.id # embedding_id), value |-> TRUE]
    ELSE [index |-> idx, value |-> FALSE]

ErrorStats == [error |-> "str(e)"]

\* get_stats, local branch
StatsLocal(f) ==
    IF f.exists
    THEN LET loaded == ReadFile(f)
         IN  IF loaded.raised THEN ErrorStats
             ELSE [total_vectors |-> Len(loaded.value), backend |-> "local",
                   file_path |-> "data/embeddings.json",
                   dimension |-> IF loaded.value # <<>>
                                 THEN Len(loaded.value[1].embedding) ELSE 0]
    ELSE [total_vectors |-> 0, backend |-> "local",
          file_path |-> "data/embeddings.json", dimension |-> 0]

\* mutant of StatsPinecone: no handler, the exception of describe_index_stats
\* reaches the caller
StatsPinecone_NoExcept(idx, call_ok) ==
    IF call_ok
    THEN [total_vectors |-> Len(idx), backend |-> "pinecone",
          index_name |-> "semantic-insights", dimension |-> PineconeDimension]
    ELSE Raised

\* get_stats, remote branch
StatsPinecone(idx, call_ok) ==
    IF call_ok
    THEN [total_vectors |-> Len(idx), backend |-> "pinecone",
          index_name |-> "semantic-insights", dimension |-> PineconeDimension]
    ELSE ErrorStats

----------------------------------------------------------------------------
(* EmbeddingGenerator and EnhancedSemanticSearchEngine *)

EmbeddingDim == 768

ZeroVector(n) == [i \in 1..n |-> 0]

\* what the embedding provider does with one request: a vector, or an exception
ProviderOutcomes == {Ok(<<1, 0>>), Ok(<<0, 1>>), Raised}

\* generate_embedding
generate_embedding(available, provider) ==
    IF ~available THEN ZeroVector(EmbeddingDim)
    ELSE IF provider.raised THEN ZeroVector(EmbeddingDim)
    ELSE provider.value

\* str.split(): the maximal runs of non-blank characters
Words(s) ==
    LET starts == {i \in 1..Len(s) : s[i] # " " /\ (i = 1 \/ s[i - 1] = " ")}
        end(i) == CHOOSE j \in i..Len(s) :
                      /\ \A k \in i..j : s[k] # " "
                      /\ (j = Len(s) \/ s[j + 1] = " ")
    IN  {SubSeq(s, i, end(i)) : i \in starts}

\* word in text
Contains(text, word) ==
    \E i \in 1..(Len(text) - Len(word) + 1) :
        SubSeq(text, i, i + Len(word) - 1) = word

\* " + ".join(explanations)
JoinPlus(explanations) ==
    LET RECURSIVE join(_)
        join(es) == IF Len(es) = 1 THEN es[1]
                    ELSE es[1] \o " + " \o join(Tail(es))
    IN  IF explanations = <<>> THEN "" ELSE join(explanations)

\* mutant of _explain_match: the mindset reason is appended before the
\* business type
_explain_match_MindsetFirst(query, matched_item) ==
    LET metadata    == matched_item.metadata
        query_lower == Lower(query)
        words       == Words(query_lower)
        goal        == Get(metadata, "primary_goal", <<>>)
        blocker     == Get(metadata, "main_blocker", <<>>)
        focus       == Get(metadata, "business_focus", <<>>)
        mindset     == Get(metadata, "mindset_pattern", <<>>)
        anyIn(text) == \E w \in words : Contains(Lower(text), w)
    IN  IF \/ (words # {} /\ (goal = None \/ blocker = None \/ mindset = None))
           \/ focus = None
        THEN Raised
        ELSE LET explanations ==
                    (IF anyIn(goal) THEN <<"Similar goal">> ELSE <<>>)
                 \o (IF anyIn(blocker) THEN <<"Similar challenge">> ELSE <<>>)
                 \o (IF anyIn(mindset) THEN <<"Similar mindset">> ELSE <<>>)
                 \o (IF Contains(query_lower, Lower(focus))
                     THEN <<"Same business type">> ELSE <<>>)
             IN  Ok(JoinPlus(IF explanations = <<>>
                             THEN <<"Semantic similarity">> ELSE explanations))

\* EnhancedSemanticSearchEngine._explain_match; None.lower() raises, and the
\* generator of any() evaluates it only when the query has a word
_explain_match(query, matched_item) ==
    LET metadata    == matched_item.metadata
        query_lower == Lower(query)
        words       == Words(query_lower)
        goal        == Get(metadata, "primary_goal", <<>>)
        blocker     == Get(metadata, "main_blocker", <<>>)
        focus       == Get(metadata, "business_focus", <<>>)
        mindset     == Get(metadata, "mindset_pattern", <<>>)
        anyIn(text) == \E w \in words : Contains(Lower(text), w)
    IN  IF \/ (words # {} /\ (goal = None \/ blocker = None \/ mindset = None))
           \/ focus = None
        THEN Raised
        ELSE LET explanations ==
                    (IF anyIn(goal) THEN <<"Similar goal">> ELSE <<>>)
                 \o (IF anyIn(blocker) THEN <<"Similar challenge">> ELSE <<>>)
                 \o (IF Contains(query_lower, Lower(focus))
                     THEN <<"Same business type">> ELSE <<>>)
                 \o (IF anyIn(mindset) THEN <<"Similar mindset">> ELSE <<>>)
             IN  Ok(JoinPlus(IF explanations = <<>>
                             THEN <<"Semantic similarity">> ELSE explanations))

\* lines 330-333: every result gets its explanation
Explained(query, results) ==
    Bind([i \in 1..Len(results) |-> _explain_match(query, results[i])],
         LAMBDA why :
            IF \E i \in 1..Len(why) : why[i].raised THEN Raised
            ELSE Ok([i \in 1..Len(results) |->
                        [id |-> results[i].id,
                         similarity_score |-> results[i].similarity_score,
                         participant |-> results[i].participant,
                         metadata |-> results[i].metadata,
                         searchable_text |-> results[i].searchable_text,
                         explanation |-> why[i].value]]))

\* EnhancedSemanticSearchEngine.search, given what the provider and the
\* remote query call do
EngineSearch(query, top_k, filters, provider, call_ok) ==
    Bind(StoreSearch(generate_embedding(api_available, provider),
                     top_k, filters, call_ok),
         LAMBDA results : Explained(query, results))

\* EnhancedSemanticSearchEngine.search_by_urgency
search_by_urgency(query, min_urgency, top_k, provider, call_ok) ==
    EngineSearch(query, top_k, [urgency_level |-> min_urgency], provider, call_ok)

\* str(x) inside an f-string
Format(x) == IF x = None THEN <<"N","o","n","e">> ELSE x

\* lines 390-398 of get_similar_participants, once the subject is found
SimilarTo(participant, participant_name, top_k, provider, call_ok) ==
    Bind(EngineSearch(Format(Get(participant.metadata, "primary_goal", <<>>))
                        \o <<" ">>
                        \o Format(Get(participant.metadata, "main_blocker", <<>>)),
                      top_k + 1, NoFilter, provider, call_ok),
         LAMBDA results :
            IF results.raised THEN Raised
            ELSE Ok(Slice(SelectSeq(results.value,
                             LAMBDA r : r.participant # participant_name),
                          top_k)))

\* mutant of get_similar_participants: no test for an empty lookup, so that
\* participant_data[0] raises
get_similar_participants_NoCheck(participant_name, top_k, provider1, provider2, ok1, ok2) ==
    Bind(EngineSearch(<<>>, 1, [participant |-> participant_name], provider1, ok1),
         LAMBDA participant_data :
            IF participant_data.raised THEN Raised
            ELSE IF participant_data.value = <<>> THEN Raised
            ELSE SimilarTo(participant_data.value[1], participant_name, top_k,
                           provider2, ok2))

\* get_similar_participants; one provider request and one query call per search
get_similar_participants(participant_name, top_k, provider1, provider2, ok1, ok2) ==
    Bind(EngineSearch(<<>>, 1, [participant |-> participant_name], provider1, ok1),
         LAMBDA participant_data :
            IF participant_data.raised THEN Raised
            ELSE IF participant_data.value = <<>> THEN Ok(<<>>)
            ELSE SimilarTo(participant_data.value[1], participant_name, top_k,
                           provider2, ok2))

----------------------------------------------------------------------------
(* EnhancedSemanticSearchEngine.search_with_business_filter *)

\* a >= b for two similarity scores: dot products on Local, cosines on the index
ScoreGeq(a, b) == IF use_pinecone THEN CosineGeq(a, b) ELSE a >= b

\* list.sort(key=lambda x: x['similarity_score'], reverse=True): stable
SortResults(results) ==
    LET RECURSIVE insert(_, _)
        insert(sorted, x) ==
            IF sorted = <<>> THEN <<x>>
            ELSE IF ScoreGeq(Head(sorted).similarity_score, x.similarity_score)
                 THEN <<Head(sorted)>> \o insert(Tail(sorted), x)
                 ELSE <<x>> \o sorted
        RECURSIVE sort(_, _)
        sort(done, rest) ==
            IF rest = <<>> THEN done
            ELSE sort(insert(done, Head(rest)), Tail(rest))
    IN  sort(<<>>, results)

\* all_results after the loop: the results of the searches, one after another
Concatenated(searches) ==
    LET RECURSIVE extend(_, _)
        extend(all_results, i) ==
            IF i > Len(searches) THEN all_results
            ELSE extend(all_results \o searches[i].value, i + 1)
    IN  extend(<<>>, 1)

\* search_with_business_filter; providers[i] and oks[i] are what the provider
\* and the remote query call do in the search for business_types[i]
search_with_business_filter(query, business_types, top_k, providers, oks) ==
    Bind([i \in 1..Len(business_types) |->
             EngineSearch(query, top_k, [business_focus |-> business_types[i]],
                          providers[i], oks[i])],
         LAMBDA searches :
            IF \E i \in 1..Len(searches) : searches[i].raised
            THEN [raised |-> TRUE, value |-> <<>>, searches |-> <<>>]
            ELSE [raised |-> FALSE,
                  value |-> Slice(SortResults(Concatenated(searches)), top_k),
                  searches |-> [i \in 1..Len(searches) |-> searches[i].value]])

----------------------------------------------------------------------------
(* SemanticSearchEngine (search_engine.py): the record file is read once, by *)
(* __init__, and search answers from the working set kept in memory.         *)

\* mutant of _load_embeddings: a record of another length aborts the load
_load_embeddings_AbortOnMismatch(f) ==
    IF ~f.exists THEN <<>>
    ELSE IF ~f.parses THEN <<>>
    ELSE IF f.data = <<>> THEN <<>>
    ELSE LET expected_dim == Len(f.data[1].embedding)
         IN  IF expected_dim = 0 THEN <<>>
             ELSE IF \E i \in 1..Len(f.data) :
                        Len(f.data[i].embedding) # expected_dim
                  THEN <<>>
                  ELSE f.data

\* _load_embeddings: a missing or empty file, or one json.load rejects, gives []
_load_embeddings(f) ==
    IF ~f.exists THEN <<>>
    ELSE IF ~f.parses THEN <<>>
    ELSE IF f.data = <<>> THEN <<>>
    ELSE LET expected_dim == Len(f.data[1].embedding)
         IN  IF expected_dim = 0 THEN <<>>
             ELSE SelectSeq(f.data,
                            LAMBDA item : Len(item.embedding) = expected_dim)

\* lines 18-22 of __init__: the generator takes the dimension of record 0
LoadedDimension(data) ==
    IF data # <<>> THEN Len(data[1].embedding) ELSE EmbeddingDim

\* generate_embedding of a generator whose embedding_dim is dim
GenerateEmbedding(dim, available, provider) ==
    IF ~available THEN ZeroVector(dim)
    ELSE IF provider.raised THEN ZeroVector(dim)
    ELSE provider.value

\* np.argsort(similarities)[::-1][:top_k]: ascending, equal scores by index,
\* then reversed and cut
TopIndices(similarities, top_k) ==
    LET RECURSIVE insert(_, _)
        insert(sorted, i) ==
            IF sorted = <<>> THEN <<i>>
            ELSE IF CosineGeq(similarities[i], similarities[Head(sorted)])
                 THEN <<Head(sorted)>> \o insert(Tail(sorted), i)
                 ELSE <<i>> \o sorted
        RECURSIVE sort(_, _)
        sort(done, i) ==
            IF i > Len(similarities) THEN done ELSE sort(insert(done, i), i + 1)
    IN  Bind(sort(<<>>, 1),
             LAMBDA ascending :
                Slice([j \in 1..Len(ascending) |->
                          ascending[Len(ascending) + 1 - j]], top_k))

\* SemanticSearchEngine._explain_match: goal, challenge, business type
BasicExplainMatch(query, matched_item) ==
    LET metadata    == matched_item.metadata
        query_lower == Lower(query)
        words       == Words(query_lower)
        goal        == Get(metadata, "primary_goal", <<>>)
        blocker     == Get(metadata, "main_blocker", <<>>)
        focus       == Get(metadata, "business_focus", <<>>)
        anyIn(text) == \E w \in words : Contains(Lower(text), w)
    IN  IF \/ (words # {} /\ (goal = None \/ blocker = None))
           \/ focus = None
        THEN Raised
        ELSE LET explanations ==
                    (IF anyIn(goal) THEN <<"Similar goal">> ELSE <<>>)
                 \o (IF anyIn(blocker) THEN <<"Similar challenge">> ELSE <<>>)
                 \o (IF Contains(query_lower, Lower(focus))
                     THEN <<"Same business type">> ELSE <<>>)
             IN  Ok(JoinPlus(IF explanations = <<>>
                             THEN <<"Semantic similarity">> ELSE explanations))

\* lines 72-83 of SemanticSearchEngine.search: one result per top index
BasicResults(data, query, query_embedding, top_indices) ==
    Bind([j \in 1..Len(top_indices) |->
             BasicExplainMatch(query, data[top_indices[j]])],
         LAMBDA why :
            IF \E j \in 1..Len(why) : why[j].raised THEN Raised
            ELSE Ok([j \in 1..Len(top_indices) |->
                        [participant |-> data[top_indices[j]].participant,
                         similarity_score |->
                            Cosine(query_embedding,
                                   data[top_indices[j]].embedding),
                         searchable_text |-> data[top_indices[j]].searchable_text,
                         metadata |-> data[top_indices[j]].metadata,
                         explanation |-> why[j].value]]))

\* SemanticSearchEngine.search over the working set data; cosine_similarity
\* raises when the query and the stored vectors differ in length
BasicSearch(data, dim, available, query, top_k, provider) ==
    IF data = <<>> THEN Ok(<<>>)
    ELSE Bind(GenerateEmbedding(dim, available, provider),
              LAMBDA query_embedding :
                 IF Len(query_embedding) # Len(data[1].embedding) THEN Raised
                 ELSE BasicResults(data, query, query_embedding,
                         TopIndices([i \in 1..Len(data) |->
                                        Cosine(query_embedding, data[i].embedding)],
                                    top_k)))

----------------------------------------------------------------------------
(* The state machine: construction, then any sequence of calls *)

QueryTexts == {<<>>, <<"a">>, <<"R","x"," ","c">>, <<"r","x"," ","a">>}

BusinessTypeLists == {<<>>, <<<<"r","x">>>>, <<<<"r","x">>, <<"t","y">>>>,
                      <<<<"r","x">>, <<"r","x">>>>}

\* the top_k of the search the page makes (app.py line 157)
AppTopK == 3

ParticipantNames == {<<"A","l">>, <<"a","l">>, <<"E","d">>, <<"Z","z">>}

\* what Config.EMBEDDINGS_PATH holds when the program starts: nothing, a
\* document that does not parse, an empty list, or records left by another tool
InitialFiles == {MissingFile, CorruptFile, JsonFile(<<>>), JsonFile(<<RecF, RecA>>)}

\* no call is in progress: every call runs to completion before the next
Idle == ret.op = "none"

\* no caller has begun: file0 is the file the callers start from, overlapped
\* tells whether a write has landed between another call's read and write
NoWriters ==
    [file0 |-> MissingFile, overlapped |-> FALSE,
     w |-> [p \in {1, 2} |->
              [pc |-> "idle", op |-> "none", id |-> <<>>, data |-> <<>>,
               loaded |-> <<>>, value |-> FALSE]]]

Init ==
    /\ constructed = FALSE
    /\ use_pinecone = FALSE
    /\ has_index = FALSE
    /\ has_local_path = FALSE
    /\ api_available = FALSE
    /\ file \in InitialFiles
    /\ index = <<>>
    /\ sse_loaded = FALSE
    /\ sse_embeddings_data = <<>>
    /\ sse_embedding_dim = EmbeddingDim
    /\ tp_api_available = FALSE
    /\ insights_file = MissingFile
    /\ writers = NoWriters
    /\ ret = [op |-> "none"]

\* EnhancedSemanticSearchEngine.__init__: EmbeddingGenerator(), VectorStore(use_pinecone)
Construct ==
    /\ ~constructed
    /\ Idle
    /\ \E requested \in BOOLEAN, lib \in BOOLEAN, api_key \in {"none", "empty", "set"},
          fails_at \in InitFailures, available \in BOOLEAN :
          LET store == VectorStoreInit(requested, lib, api_key, fails_at)
          IN  /\ use_pinecone' = store.use_pinecone
              /\ has_index' = store.has_index
              /\ has_local_path' = store.has_local_path
              /\ api_available' = available
              /\ ret' = [op |-> "construct", requested |-> requested,
                         PINECONE_AVAILABLE |-> lib, api_key |-> api_key,
                         fails_at |-> fails_at, raised |-> FALSE]
    /\ constructed' = TRUE
    /\ UNCHANGED <<file, index>>
    /\ UNCHANGED sse_vars
    /\ UNCHANGED tp_vars
    /\ UNCHANGED writers

\* VectorStore.upsert_embeddings
upsert_embeddings ==
    /\ constructed
    /\ Idle
    /\ \E embeddings_data \in RecordLists :
          IF use_pinecone
          THEN \E fail_batch \in 0..1 :
                  LET r == _upsert_pinecone(index, embeddings_data, fail_batch)
                  IN  /\ index' = r.index
                      /\ file' = file
                      /\ ret' = [op |-> "upsert", embeddings_data |-> embeddings_data,
                                 call_failed |-> r.call_failed, value |-> r.value]
          ELSE \E io \in IoOutcomes :
                  LET r == _upsert_local(file, embeddings_data, io)
                  IN  /\ file' = r.file
                      /\ index' = index
                      /\ ret' = [op |-> "upsert", embeddings_data |-> embeddings_data,
                                 call_failed |-> FALSE, value |-> r.value]
    /\ UNCHANGED <<constructed, use_pinecone, has_index, has_local_path,
                   api_available>>
    /\ UNCHANGED sse_vars
    /\ UNCHANGED tp_vars
    /\ UNCHANGED writers

\* VectorStore.search
search ==
    /\ constructed
    /\ Idle
    /\ \E query_embedding \in QueryVectors, top_k \in TopKs, filters \in StoreFilters,
          call_ok \in (IF use_pinecone THEN BOOLEAN ELSE {TRUE}) :
          ret' = [op |-> "search", query_embedding |-> query_embedding,
                  top_k |-> top_k, filters |-> filters,
                  pinecone_filter |-> IF use_pinecone THEN PineconeFilter(filters)
                                                      ELSE <<>>,
                  call_failed |-> ~call_ok,
                  value |-> StoreSearch(query_embedding, top_k, filters, call_ok)]
    /\ UNCHANGED <<constructed, use_pinecone, has_index, has_local_path,
                   api_available, file, index>>
    /\ UNCHANGED sse_vars
    /\ UNCHANGED tp_vars
    /\ UNCHANGED writers

\* VectorStore.delete_by_id
delete_by_id ==
    /\ constructed
    /\ Idle
    /\ \E embedding_id \in Ids :
          IF use_pinecone
          THEN \E call_ok \in BOOLEAN :
                  LET r == DeletePinecone(index, embedding_id, call_ok)
                  IN  /\ index' = r.index
                      /\ file' = file
                      /\ ret' = [op |-> "delete", id |-> embedding_id,
                                 io |-> IF call_ok THEN "ok" ELSE "call_fails",
                                 before |-> Len(index),
                                 value |-> r.value]
          ELSE \E io \in IoOutcomes :
                  LET r == DeleteLocal(file, embedding_id, io)
                  IN  /\ file' = r.file
                      /\ index' = index
                      /\ ret' = [op |-> "delete", id |-> embedding_id,
                                 io |-> io, before |-> Len(file.data),
                                 value |-> r.value]
    /\ UNCHANGED <<constructed, use_pinecone, has_index, has_local_path,
                   api_available>>
    /\ UNCHANGED sse_vars
    /\ UNCHANGED tp_vars
    /\ UNCHANGED writers

\* mutant of get_stats: a failing describe call switches the store to the
\* Local Backend
get_stats_FallsBack ==
    /\ constructed
    /\ Idle
    /\ \E call_ok \in (IF use_pinecone THEN BOOLEAN ELSE {TRUE}) :
          /\ ret' = [op |-> "stats", call_failed |-> ~call_ok,
                     value |-> IF use_pinecone THEN StatsPinecone(index, call_ok)
                               ELSE StatsLocal(file)]
          /\ use_pinecone' = (use_pinecone /\ call_ok)
          /\ has_local_path' = (has_local_path \/ ~call_ok)
    /\ UNCHANGED <<constructed, has_index, api_available, file, index>>
    /\ UNCHANGED sse_vars
    /\ UNCHANGED tp_vars
    /\ UNCHANGED writers

\* VectorStore.get_stats
get_stats ==
    /\ constructed
    /\ Idle
    /\ \E call_ok \in (IF use_pinecone THEN BOOLEAN ELSE {TRUE}) :
          ret' = [op |-> "stats", call_failed |-> ~call_ok,
                  value |-> IF use_pinecone THEN StatsPinecone(index, call_ok)
                            ELSE StatsLocal(file)]
    /\ UNCHANGED <<constructed, use_pinecone, has_index, has_local_path,
                   api_available, file, index>>
    /\ UNCHANGED sse_vars
    /\ UNCHANGED tp_vars
    /\ UNCHANGED writers

\* EnhancedSemanticSearchEngine.search
engine_search ==
    /\ constructed
    /\ Idle
    /\ \E query \in QueryTexts, top_k \in TopKs, filters \in Filters,
          provider \in (IF api_available THEN ProviderOutcomes ELSE {Raised}),
          call_ok \in (IF use_pinecone THEN BOOLEAN ELSE {TRUE}) :
          \E r \in {EngineSearch(query, top_k, filters, provider, call_ok)},
             q \in {generate_embedding(api_available, provider)} :
              ret' = [op |-> "engine_search", query |-> query, top_k |-> top_k,
                      filters |-> filters,
                      degraded |-> ~api_available \/ provider.raised,
                      query_dim |-> Len(q),
                      query_zero |-> \A i \in 1..Len(q) : q[i] = 0,
                      raised |-> r.raised, value |-> r.value]
    /\ UNCHANGED <<constructed, use_pinecone, has_index, has_local_path,
                   api_available, file, index>>
    /\ UNCHANGED sse_vars
    /\ UNCHANGED tp_vars
    /\ UNCHANGED writers

\* EnhancedSemanticSearchEngine.search_by_urgency
urgency_search ==
    /\ constructed
    /\ Idle
    /\ \E query \in QueryTexts, min_urgency \in MinUrgencies, top_k \in TopKs,
          provider \in (IF api_available THEN ProviderOutcomes ELSE {Raised}),
          call_ok \in (IF use_pinecone THEN BOOLEAN ELSE {TRUE}) :
          \E r \in {search_by_urgency(query, min_urgency, top_k, provider, call_ok)} :
              ret' = [op |-> "search_by_urgency", query |-> query,
                      min_urgency |-> min_urgency, top_k |-> top_k,
                      raised |-> r.raised, value |-> r.value]
    /\ UNCHANGED <<constructed, use_pinecone, has_index, has_local_path,
                   api_available, file, index>>
    /\ UNCHANGED sse_vars
    /\ UNCHANGED tp_vars
    /\ UNCHANGED writers

\* EnhancedSemanticSearchEngine.get_similar_participants
similar_participants ==
    /\ constructed
    /\ Idle
    /\ \E participant_name \in ParticipantNames, top_k \in TopKs,
          provider1 \in (IF api_available THEN ProviderOutcomes ELSE {Raised}),
          provider2 \in (IF api_available THEN ProviderOutcomes ELSE {Raised}),
          ok1 \in (IF use_pinecone THEN BOOLEAN ELSE {TRUE}),
          ok2 \in (IF use_pinecone THEN BOOLEAN ELSE {TRUE}) :
          \E r \in {get_similar_participants(participant_name, top_k,
                                              provider1, provider2, ok1, ok2)} :
              ret' = [op |-> "similar", participant_name |-> participant_name,
                      top_k |-> top_k, raised |-> r.raised, value |-> r.value]
    /\ UNCHANGED <<constructed, use_pinecone, has_index, has_local_path,
                   api_available, file, index>>
    /\ UNCHANGED sse_vars
    /\ UNCHANGED tp_vars
    /\ UNCHANGED writers

\* EnhancedSemanticSearchEngine.search_with_business_filter
business_filter_search ==
    /\ constructed
    /\ Idle
    /\ \E query \in QueryTexts, business_types \in BusinessTypeLists, top_k \in TopKs :
          \E providers \in [1..Len(business_types) ->
                               IF api_available THEN ProviderOutcomes ELSE {Raised}],
             oks \in [1..Len(business_types) ->
                         IF use_pinecone THEN BOOLEAN ELSE {TRUE}] :
              \E r \in {search_with_business_filter(query, business_types, top_k,
                                                    providers, oks)} :
                  ret' = [op |-> "business_filter_search", query |-> query,
                          business_types |-> business_types, top_k |-> top_k,
                          raised |-> r.raised, searches |-> r.searches,
                          value |-> r.value]
    /\ UNCHANGED <<constructed, use_pinecone, has_index, has_local_path,
                   api_available, file, index>>
    /\ UNCHANGED sse_vars
    /\ UNCHANGED tp_vars
    /\ UNCHANGED writers

\* EmbeddingGenerator.process_all_insights: with the provider available the
\* records made from the insights replace the file, otherwise the file is
\* read back; no exception is handled
process_all_insights ==
    /\ constructed
    /\ Idle
    /\ IF api_available
       THEN \E results \in RecordLists, io \in IoOutcomes :
               /\ file' = WriteFile(file, results, io)
               /\ ret' = [op |-> "process_all_insights", io |-> io,
                          raised |-> io # "ok"]
       ELSE /\ file' = file
            /\ ret' = [op |-> "process_all_insights", io |-> "read",
                       raised |-> ReadFile(file).raised]
    /\ UNCHANGED <<constructed, use_pinecone, has_index, has_local_path,
                   api_available, index>>
    /\ UNCHANGED sse_vars
    /\ UNCHANGED tp_vars
    /\ UNCHANGED writers

\* the search of the page (app.py lines 155-157): a SemanticSearchEngine is
\* constructed, searched once with top_k = 3 and dropped
app_search ==
    /\ Idle
    /\ \E query \in QueryTexts, available \in BOOLEAN, provider \in ProviderOutcomes :
          \E data \in {_load_embeddings(file)} :
             \E r \in {BasicSearch(data, LoadedDimension(data), available,
                                    query, AppTopK, provider)} :
                 ret' = [op |-> "app_search", query |-> query,
                         embeddings_data |-> data,
                         raised |-> r.raised, value |-> r.value]
    /\ UNCHANGED <<constructed, use_pinecone, has_index, has_local_path,
                   api_available, file, index>>
    /\ UNCHANGED sse_vars
    /\ UNCHANGED tp_vars
    /\ UNCHANGED writers

\* SemanticSearchEngine.__init__
SemanticSearchEngineInit ==
    /\ ~sse_loaded
    /\ Idle
    /\ sse_loaded' = TRUE
    /\ sse_embeddings_data' = _load_embeddings(file)
    /\ sse_embedding_dim' = LoadedDimension(_load_embeddings(file))
    /\ ret' = [op |-> "SemanticSearchEngine"]
    /\ UNCHANGED <<constructed, use_pinecone, has_index, has_local_path,
                   api_available, file, index>>
    /\ UNCHANGED tp_vars
    /\ UNCHANGED writers

\* SemanticSearchEngine.search on the instance constructed earlier
SemanticSearchEngineSearch ==
    /\ sse_loaded
    /\ Idle
    /\ \E query \in QueryTexts, top_k \in TopKs,
          provider \in (IF api_available THEN ProviderOutcomes ELSE {Raised}) :
          \E r \in {BasicSearch(sse_embeddings_data, sse_embedding_dim,
                                 api_available, query, top_k, provider)} :
              ret' = [op |-> "basic_search", query |-> query, top_k |-> top_k,
                      answered_from |-> sse_embeddings_data,
                      raised |-> r.raised, value |-> r.value]
    /\ UNCHANGED <<constructed, use_pinecone, has_index, has_local_path,
                   api_available, file, index>>
    /\ UNCHANGED sse_vars
    /\ UNCHANGED tp_vars
    /\ UNCHANGED writers

\* the caller takes the returned value and goes on to its next call
Return ==
    /\ ~Idle
    /\ ret' = [op |-> "none"]
    /\ UNCHANGED <<constructed, use_pinecone, has_index, has_local_path,
                   api_available, file, index>>
    /\ UNCHANGED sse_vars
    /\ UNCHANGED tp_vars
    /\ UNCHANGED writers

Next ==
    \/ Construct
    \/ Return
    \/ upsert_embeddings
    \/ search
    \/ delete_by_id
    \/ get_stats
    \/ engine_search
    \/ urgency_search
    \/ similar_participants
    \/ business_filter_search
    \/ app_search

Spec == Init /\ [][Next]_vars

\* A SemanticSearchEngine instance kept by its caller while the Local Backend
\* of a VectorStore writes the same file
HeldInit ==
    /\ constructed = TRUE
    /\ use_pinecone = FALSE
    /\ has_index = FALSE
    /\ has_local_path = TRUE
    /\ api_available \in BOOLEAN
    /\ file \in InitialFiles
    /\ index = <<>>
    /\ sse_loaded = FALSE
    /\ sse_embeddings_data = <<>>
    /\ sse_embedding_dim = EmbeddingDim
    /\ tp_api_available = FALSE
    /\ insights_file = MissingFile
    /\ writers = NoWriters
    /\ ret = [op |-> "none"]

HeldNext ==
    \/ SemanticSearchEngineInit
    \/ SemanticSearchEngineSearch
    \/ upsert_embeddings
    \/ delete_by_id
    \/ process_all_insights
    \/ Return

HeldSpec == HeldInit /\ [][HeldNext]_vars

----------------------------------------------------------------------------
(* Two callers of the Local Backend at once.  delete_by_id reads the whole   *)
(* file and later writes the whole file; upsert writes the whole file.  The  *)
(* code takes no lock, so the steps of two calls can interleave.              *)

Writers == {1, 2}

Other(p) == 3 - p

\* the files the two callers start from
RaceFiles == {MissingFile, JsonFile(<<RecA, RecB>>), JsonFile(<<RecA, RecB, RecC>>)}

\* the record sets an upsert brings
RaceUpserts == {<<RecC>>, <<RecA, RecD>>}

\* lines 253-254 of delete_by_id: the whole file is read
DeleteRead(f) == ReadFile(f)

\* mutant of DeleteWrite: the record set is written back as it was read
DeleteWrite_KeepsAll(f, loaded, embedding_id, io) ==
    [file |-> WriteFile(f, loaded, io), value |-> io = "ok"]

\* lines 257-260 of delete_by_id: the records read earlier, without the id,
\* replace the file
DeleteWrite(f, loaded, embedding_id, io) ==
    [file |-> WriteFile(f, SelectSeq(loaded, LAMBDA item : item.id # embedding_id), io),
     value |-> io = "ok"]

\* a write that lands while the other caller holds a record set it read
\* earlier makes that record set stale
Overlaps(p) == writers.w[Other(p)].pc = "loaded"

\* delete_by_id begins: the file is read; a failed read ends the call with False
delete_read ==
    /\ constructed /\ ~use_pinecone
    /\ \E p \in Writers, embedding_id \in Ids :
        /\ writers.w[p].pc = "idle"
        /\ \E loaded \in {DeleteRead(file)} :
              writers' = [writers EXCEPT !.w[p] =
                  IF loaded.raised
                  THEN [pc |-> "done", op |-> "delete", id |-> embedding_id,
                        data |-> <<>>, loaded |-> <<>>, value |-> FALSE]
                  ELSE [pc |-> "loaded", op |-> "delete", id |-> embedding_id,
                        data |-> <<>>, loaded |-> loaded.value, value |-> FALSE]]
    /\ UNCHANGED <<constructed, use_pinecone, has_index, has_local_path,
                   api_available, file, index, ret>>
    /\ UNCHANGED sse_vars
    /\ UNCHANGED tp_vars

\* delete_by_id ends: the filtered record set replaces the file
delete_write ==
    /\ constructed /\ ~use_pinecone
    /\ \E p \in Writers, io \in IoOutcomes :
        /\ writers.w[p].pc = "loaded"
        /\ \E r \in {DeleteWrite(file, writers.w[p].loaded, writers.w[p].id, io)} :
              /\ file' = r.file
              /\ writers' = [writers EXCEPT !.w[p].pc = "done",
                                            !.w[p].value = r.value,
                                            !.overlapped = @ \/ Overlaps(p)]
    /\ UNCHANGED <<constructed, use_pinecone, has_index, has_local_path,
                   api_available, index, ret>>
    /\ UNCHANGED sse_vars
    /\ UNCHANGED tp_vars

\* upsert_embeddings by one of the two callers: one write of the whole file
upsert_write ==
    /\ constructed /\ ~use_pinecone
    /\ \E p \in Writers, embeddings_data \in RaceUpserts, io \in IoOutcomes :
        /\ writers.w[p].pc = "idle"
        /\ \E r \in {_upsert_local(file, embeddings_data, io)} :
              /\ file' = r.file
              /\ writers' = [writers EXCEPT
                    !.w[p] = [pc |-> "done", op |-> "upsert", id |-> <<>>,
                              data |-> embeddings_data, loaded |-> <<>>,
                              value |-> r.value],
                    !.overlapped = @ \/ Overlaps(p)]
    /\ UNCHANGED <<constructed, use_pinecone, has_index, has_local_path,
                   api_available, index, ret>>
    /\ UNCHANGED sse_vars
    /\ UNCHANGED tp_vars

RaceInit ==
    /\ constructed = TRUE
    /\ use_pinecone = FALSE
    /\ has_index = FALSE
    /\ has_local_path = TRUE
    /\ api_available = FALSE
    /\ file \in RaceFiles
    /\ index = <<>>
    /\ sse_loaded = FALSE
    /\ sse_embeddings_data = <<>>
    /\ sse_embedding_dim = EmbeddingDim
    /\ tp_api_available = FALSE
    /\ insights_file = MissingFile
    /\ writers = [NoWriters EXCEPT !.file0 = file]
    /\ ret = [op |-> "none"]

RaceNext ==
    \/ delete_read
    \/ delete_write
    \/ upsert_write

RaceSpec == RaceInit /\ [][RaceNext]_vars

----------------------------------------------------------------------------
(* A bulk load of the remote index *)

\* the i-th record of a bulk load
BulkRecord(i) ==
    EmbeddingRecord(<<i>>, <<"A","l">>, <<1, 0>>,
        [primary_goal |-> <<"a">>, main_blocker |-> <<"b">>,
         business_focus |-> <<"r","x">>, mindset_pattern |-> <<"a">>,
         urgency_level |-> 3])

\* n records; the one at position null_at, if any, has a null primary_goal
BulkRecords(n, null_at) ==
    [i \in 1..n |->
        IF i = null_at
        THEN [BulkRecord(i) EXCEPT !.metadata.primary_goal = None]
        ELSE BulkRecord(i)]

\* record counts around the multiples of the batch size
BulkSizes ==
    {k * BatchSize + d : k \in 0..MaxBatches, d \in {0 - 1, 0, 1}} \cap Nat

\* what the index holds before a bulk load: nothing, or an older vector of
\* record 1 and a vector of a record that no load brings
Preloaded ==
    <<[PineconeVector(BulkRecord(0)).value EXCEPT !.values = <<0, 1>>],
      [PineconeVector(BulkRecord(1)).value EXCEPT !.values = <<0, 1>>]>>

\* VectorStore.upsert_embeddings on the Remote Backend, given a bulk load
\* into an index of at most MaxPreloaded vectors; the returned call records
\* the batches index.upsert accepted
bulk_upsert ==
    /\ constructed /\ use_pinecone
    /\ Idle
    /\ Len(index) <= MaxPreloaded
    /\ \E n \in BulkSizes, fail_batch \in 0..(MaxBatches + 1) :
        \E null_at \in {0, n} :
          \E r \in {_upsert_pinecone(index, BulkRecords(n, null_at), fail_batch)} :
              /\ index' = r.index
              /\ ret' = [op |-> "upsert", n |-> n, null_at |-> null_at,
                         fail_batch |-> fail_batch,
                         before |-> index,
                         calls |-> r.calls,
                         call_failed |-> r.call_failed, value |-> r.value]
    /\ UNCHANGED <<constructed, use_pinecone, has_index, has_local_path,
                   api_available, file>>
    /\ UNCHANGED sse_vars
    /\ UNCHANGED tp_vars
    /\ UNCHANGED writers

BulkInit ==
    /\ constructed = TRUE
    /\ use_pinecone = TRUE
    /\ has_index = TRUE
    /\ has_local_path = FALSE
    /\ api_available = FALSE
    /\ file = MissingFile
    /\ index \in {<<>>, Preloaded}
    /\ sse_loaded = FALSE
    /\ sse_embeddings_data = <<>>
    /\ sse_embedding_dim = EmbeddingDim
    /\ tp_api_available = FALSE
    /\ insights_file = MissingFile
    /\ writers = NoWriters
    /\ ret = [op |-> "none"]

BulkNext ==
    \/ bulk_upsert
    \/ Return

BulkSpec == BulkInit /\ [][BulkNext]_vars

----------------------------------------------------------------------------
(* TranscriptProcessor *)

Transcript(id, participant, transcript) ==
    [id |-> id, participant |-> participant, transcript |-> transcript]

TranscriptA == Transcript(<<"a">>, <<"A","l">>, <<"x">>)
TranscriptB == Transcript(<<"b">>, <<"B","o">>, <<"y">>)

TranscriptLists == SeqsUpTo({TranscriptA, TranscriptB}, MaxTranscripts)

\* the document at Config.TRANSCRIPTS_PATH
TranscriptFiles == {MissingFile} \cup {JsonFile(t) : t \in TranscriptLists}

\* what one pass of the try block meets: generate_content raises, json.loads
\* rejects the cleaned text, or the text parses
ExtractionOutcomes == {"ok", "generate_fails", "bad_json"}

\* the object the cleaned response parses to: the fields the prompt asks for
Insights(transcript_data) ==
    [primary_goal |-> transcript_data.transcript,
     main_blocker |-> <<"b">>,
     business_focus |-> <<"r","x">>,
     mindset_pattern |-> <<"a">>,
     urgency_level |-> 3]

\* {"id": ..., "participant": ..., **insights}: a later key replaces an earlier one
Merge(base, insights) ==
    [k \in DOMAIN base \cup DOMAIN insights |->
        IF k \in DOMAIN insights THEN insights[k] ELSE base[k]]

\* lines 76-81: the result made of one transcript and its insights
ExtractionResult(transcript_data) ==
    Merge([id |-> transcript_data.id, participant |-> transcript_data.participant],
          Insights(transcript_data))

\* mutant of ExtractStep: a failure ends the loop
ExtractStep_Abort(acc, transcript_data, outcome) ==
    IF acc.aborted THEN acc
    ELSE IF outcome = "ok"
         THEN [acc EXCEPT !.results = Append(@, ExtractionResult(transcript_data)),
                          !.calls = Append(@, transcript_data.id)]
         ELSE [acc EXCEPT !.calls = Append(@, transcript_data.id),
                          !.aborted = TRUE]

\* one pass of the loop body (lines 51-85): the transcript is given to
\* generate_content; its result is appended, or the handler continues
ExtractStep(acc, transcript_data, outcome) ==
    IF outcome = "ok"
    THEN [acc EXCEPT !.results = Append(@, ExtractionResult(transcript_data)),
                     !.calls = Append(@, transcript_data.id)]
    ELSE [acc EXCEPT !.calls = Append(@, transcript_data.id)]

\* the for loop of process_all_transcripts (lines 49-85); calls lists the
\* transcripts given to generate_content
RECURSIVE ExtractLoop(_, _, _)
ExtractLoop(transcripts, outcomes, acc) ==
    IF transcripts = <<>> THEN acc
    ELSE ExtractLoop(Tail(transcripts), Tail(outcomes),
                     ExtractStep(acc, Head(transcripts), Head(outcomes)))

\* TranscriptProcessor._load_local_insights
_load_local_insights(f) == ReadFile(f)

\* TranscriptProcessor.__init__ and process_all_transcripts: without the
\* provider the insights file is read back; with it every transcript is
\* extracted in turn and the results replace the insights file. Neither file
\* access has a handler.
process_all_transcripts ==
    /\ Idle
    /\ \E available \in BOOLEAN :
        /\ tp_api_available' = available
        /\ IF ~available
           THEN /\ insights_file' = insights_file
                /\ ret' = [op |-> "process_all_transcripts", available |-> FALSE,
                           raised |-> _load_local_insights(insights_file).raised,
                           value |-> _load_local_insights(insights_file).value]
           ELSE \E transcripts_file \in TranscriptFiles :
                  IF ReadFile(transcripts_file).raised
                  THEN /\ insights_file' = insights_file
                       /\ ret' = [op |-> "process_all_transcripts",
                                  available |-> TRUE, raised |-> TRUE,
                                  value |-> <<>>]
                  ELSE \E outcomes \in [1..Len(transcripts_file.data) -> ExtractionOutcomes],
                          io \in IoOutcomes :
                         \E r \in {ExtractLoop(transcripts_file.data, outcomes,
                                               [results |-> <<>>, calls |-> <<>>,
                                                aborted |-> FALSE])} :
                            /\ insights_file' = WriteFile(insights_file, r.results, io)
                            /\ ret' = [op |-> "process_all_transcripts",
                                       available |-> TRUE,
                                       transcripts |-> transcripts_file.data,
                                       outcomes |-> outcomes, calls |-> r.calls,
                                       io |-> io, raised |-> io # "ok",
                                       value |-> IF io = "ok" THEN r.results ELSE <<>>]
    /\ UNCHANGED <<constructed, use_pinecone, has_index, has_local_path,
                   api_available, file, index>>
    /\ UNCHANGED sse_vars
    /\ UNCHANGED writers

\* A TranscriptProcessor run on its own
ExtractInit ==
    /\ constructed = FALSE
    /\ use_pinecone = FALSE
    /\ has_index = FALSE
    /\ has_local_path = FALSE
    /\ api_available = FALSE
    /\ file = MissingFile
    /\ index = <<>>
    /\ sse_loaded = FALSE
    /\ sse_embeddings_data = <<>>
    /\ sse_embedding_dim = EmbeddingDim
    /\ tp_api_available = FALSE
    /\ insights_file \in {MissingFile, CorruptFile, JsonFile(<<>>)}
    /\ writers = NoWriters
    /\ ret = [op |-> "none"]

ExtractNext ==
    \/ process_all_transcripts
    \/ Return

ExtractSpec == ExtractInit /\ [][ExtractNext]_vars

----------------------------------------------------------------------------
(* What the claims speak of *)

Local == constructed /\ ~use_pinecone

\* the record set has one dimension, the query has it too, and no field is null
ValidFor(data, query_embedding) ==
    \A i \in 1..Len(data) :
        /\ Len(data[i].embedding) = Len(query_embedding)
        /\ \A k \in DOMAIN data[i].metadata :
              data[i].metadata[k] # (IF k = "urgency_level" THEN NoneInt ELSE None)

\* result entries are in non-increasing order of similarity_score
Descending(results) ==
    \A i \in 1..(Len(results) - 1) :
        results[i].similarity_score >= results[i + 1].similarity_score

\* a stored record or result entry satisfies the filter, strings compared by
\* Eq; a field the record lacks counts as "" (as 3 for urgency_level)
Satisfies(r, filters, Eq(_, _)) ==
    /\ "business_focus" \in DOMAIN filters =>
          Eq(Get(r.metadata, "business_focus", <<>>), filters.business_focus)
    /\ "participant" \in DOMAIN filters =>
          Eq(r.participant, filters.participant)
    /\ "urgency_level" \in DOMAIN filters =>
          /\ Get(r.metadata, "urgency_level", 3) # NoneInt
          /\ Get(r.metadata, "urgency_level", 3) >= filters.urgency_level

SameString(a, b) == a = b

SameIgnoringCase(a, b) == Lower(a) = Lower(b)


\* the stored records that satisfy the filter (letter case ignored)
Candidates(data, filters) ==
    SelectSeq(data, LAMBDA r : Satisfies(r, filters, SameIgnoringCase))

\* a local search over a valid record set has returned
ValidLocalSearch ==
    /\ Local
    /\ ret.op = "search"
    /\ file.parses
    /\ ValidFor(file.data, ret.query_embedding)

----------------------------------------------------------------------------
(* C1..C10 *)

\* C1: a local search over a record set of uniform dimension returns at most
\* topK results (none when topK is negative), in non-increasing order of
\* similarityScore, and all the candidates surviving the filter when topK
\* exceeds their number.
C1_AtMostTopKDescending ==
    ValidLocalSearch =>
        /\ Len(ret.value) <= Max(ret.top_k, 0)
        /\ Descending(ret.value)
        /\ ret.top_k > Len(Candidates(file.data, ret.filters)) =>
              Len(ret.value) = Len(Candidates(file.data, ret.filters))

C3_StoredVectorIsTopMatch ==
    (/\ ValidLocalSearch
     /\ ret.filters = NoFilter
     /\ ret.top_k >= 1
     /\ \E i \in 1..Len(file.data) : file.data[i].embedding = ret.query_embedding)
    => /\ ret.value # <<>>
       /\ \E i \in 1..Len(file.data) :
             /\ file.data[i].embedding = ret.query_embedding
             /\ file.data[i].id = ret.value[1].id
       /\ ret.value[1].similarity_score
             = Dot(ret.query_embedding, ret.query_embedding).value

\* C4: a local delete(id) on a store that is absent or readable, whose write
\* does not fail, returns success, leaves no record with that id, and changes
\* nothing when no record had that id.
C4_DeleteIdempotent ==
    [][(/\ Local /\ Idle
        /\ ret'.op = "delete" /\ ret'.io = "ok"
        /\ (file.exists => file.parses))
       => /\ ret'.value = TRUE
          /\ \A i \in 1..Len(file'.data) : file'.data[i].id # ret'.id
          /\ (\A i \in 1..Len(file.data) : file.data[i].id # ret'.id)
                => file'.data = file.data]_vars

\* C5: a local search with topK <= 0 returns the empty sequence.
C5_NonPositiveTopKEmpty ==
    (Local /\ ret.op = "search" /\ ret.top_k <= 0) => ret.value = <<>>

\* C6: construction does not raise; Remote is active exactly when the library
\* is present, a credential is configured, the caller asked for it and remote
\* initialisation succeeded; otherwise Local is active and initialised.
C6_ConstructionPolicy ==
    /\ ret.op = "construct" =>
          /\ ~ret.raised
          /\ use_pinecone <=> (/\ ret.PINECONE_AVAILABLE
                               /\ ret.api_key = "set"
                               /\ ret.requested
                               /\ ret.fails_at = "none")
    /\ constructed => IF use_pinecone THEN has_index ELSE has_local_path

\* C6 witness: remote initialisation was attempted and threw; Local is active.
C6_Witness ==
    /\ ret.op = "construct"
    /\ ret.PINECONE_AVAILABLE /\ ret.api_key = "set" /\ ret.requested
    /\ ret.fails_at = "create_index"
    /\ ~use_pinecone /\ has_local_path

\* C7: the value stats() returns names the active backend.
C7_StatsNamesBackend ==
    ret.op = "stats" =>
        /\ "backend" \in DOMAIN ret.value
        /\ ret.value.backend = (IF use_pinecone THEN "pinecone" ELSE "local")

\* C8: with the embedding provider unavailable, a Local engine search
\* (topK >= 1) over a valid record set of dimension D uses the zero vector of
\* length D, does not raise, and returns the filtered candidates (all of them
\* when topK allows) with one score.
C8_DegradedZeroVector ==
    (/\ Local /\ ret.op = "engine_search" /\ ret.degraded /\ ret.top_k >= 1
     /\ file.parses /\ file.data # <<>>
     /\ ValidFor(file.data, file.data[1].embedding))
    => /\ ret.query_zero
       /\ ret.query_dim = Len(file.data[1].embedding)
       /\ ~ret.raised
       /\ ret.top_k >= Len(Candidates(file.data, ret.filters)) =>
             Len(ret.value) = Len(Candidates(file.data, ret.filters))
       /\ \A i, j \in 1..Len(ret.value) :
             ret.value[i].similarity_score = ret.value[j].similarity_score

\* the lookup of get_similar_participants finds no stored record under the
\* name: Local compares ignoring letter case, the index compares exactly
NotFound(name) ==
    IF use_pinecone
    THEN \A i \in 1..Len(index) : index[i].metadata.participant # name
    ELSE \A i \in 1..Len(file.data) :
            ~SameIgnoringCase(file.data[i].participant, name)

\* C9: getSimilarTo of a label that no stored record matches returns the
\* empty sequence and does not raise.
C9_UnknownSubjectEmpty ==
    (constructed /\ ret.op = "similar" /\ NotFound(ret.participant_name)) =>
        ~ret.raised /\ ret.value = <<>>

\* C9 witness: the store holds records, none under the name asked for.
C9_Witness ==
    /\ Local /\ ret.op = "similar"
    /\ Len(file.data) = 2
    /\ NotFound(ret.participant_name)
    /\ ret.top_k >= 1
    /\ ret.value = <<>>

\* C10: getSimilarTo of a subject that is found returns at most topK results,
\* none of them the subject.
C10_SubjectExcluded ==
    (Local /\ ret.op = "similar" /\ ~ret.raised /\ ~NotFound(ret.participant_name))
    => /\ Len(ret.value) <= Max(ret.top_k, 0)
       /\ \A i \in 1..Len(ret.value) :
             ~SameIgnoringCase(ret.value[i].participant, ret.participant_name)

----------------------------------------------------------------------------
(* C11..C20 *)

\* the results of several searches, one after another
Flatten(searches) ==
    LET RECURSIVE flat(_)
        flat(i) == IF i > Len(searches) THEN <<>> ELSE searches[i] \o flat(i + 1)
    IN  flat(1)

\* value is the k best entries of all, best first
TopOf(value, all, k) ==
    /\ Len(value) = Min(k, Len(all))
    /\ \A i \in 1..(Len(value) - 1) :
          ScoreGeq(value[i].similarity_score, value[i + 1].similarity_score)
    /\ \A i \in 1..Len(value) : \E j \in 1..Len(all) : all[j] = value[i]
    /\ \A j \in 1..Len(all) :
          (\E i \in 1..Len(value) :
              ~ScoreGeq(value[i].similarity_score, all[j].similarity_score))
          => \E i \in 1..Len(value) : value[i] = all[j]

\* C11: searchByBusinessTypes returns the topK highest-scoring entries of the
\* concatenation of the per-type searches (none when topK is negative), in
\* non-increasing score order, and every returned record has a businessFocus
\* equal to one of the requested types.
C11_TopKOfConcatenation ==
    (constructed /\ ret.op = "business_filter_search" /\ ~ret.raised) =>
        /\ TopOf(ret.value, Flatten(ret.searches), Max(ret.top_k, 0))
        /\ \A i \in 1..Len(ret.value) :
              \E t \in 1..Len(ret.business_types) :
                 ret.value[i].metadata.business_focus = ret.business_types[t]

\* some word of the lowercased query occurs in the lowercased text of a field
WordIn(query, metadata, field) ==
    \E w \in Words(Lower(query)) :
        Contains(Lower(Get(metadata, field, <<>>)), w)

\* the lowercased business focus is a substring of the lowercased query
FocusIn(query, metadata) ==
    Contains(Lower(query), Lower(Get(metadata, "business_focus", <<>>)))

Reason(triggered, text) == IF triggered THEN <<text>> ELSE <<>>

\* the reasons joined with " + ", or the fallback when there is none
Explanation(reasons) ==
    IF reasons = <<>> THEN "Semantic similarity" ELSE JoinPlus(reasons)

\* a search of either engine has returned results explained for ret.query
ExplainedSearch ==
    /\ ret.op \in {"engine_search", "business_filter_search", "app_search"}
    /\ ~ret.raised

\* C12 as claimed: the explanation of every result joins the triggered reasons
\* in the order goal, challenge, mindset, business type, and is "Semantic
\* similarity" exactly when none triggers.
C12_ReasonsMindsetBeforeBusiness ==
    ExplainedSearch =>
        \A i \in 1..Len(ret.value) :
            ret.value[i].explanation =
                Explanation(
                    Reason(WordIn(ret.query, ret.value[i].metadata, "primary_goal"),
                           "Similar goal")
                 \o Reason(WordIn(ret.query, ret.value[i].metadata, "main_blocker"),
                           "Similar challenge")
                 \o Reason(WordIn(ret.query, ret.value[i].metadata, "mindset_pattern"),
                           "Similar mindset")
                 \o Reason(FocusIn(ret.query, ret.value[i].metadata),
                           "Same business type"))

\* C12 as amended: the explanation joins the triggered reasons in the order
\* goal, challenge, business type, mindset; SemanticSearchEngine (the page's
\* engine) has no mindset reason; the explanation is "Semantic similarity"
\* exactly when none of the engine's reasons triggers.
C12_ReasonsBusinessBeforeMindset ==
    ExplainedSearch =>
        \A i \in 1..Len(ret.value) :
            ret.value[i].explanation =
                Explanation(
                    Reason(WordIn(ret.query, ret.value[i].metadata, "primary_goal"),
                           "Similar goal")
                 \o Reason(WordIn(ret.query, ret.value[i].metadata, "main_blocker"),
                           "Similar challenge")
                 \o Reason(FocusIn(ret.query, ret.value[i].metadata),
                           "Same business type")
                 \o Reason(ret.op # "app_search"
                           /\ WordIn(ret.query, ret.value[i].metadata,
                                     "mindset_pattern"),
                           "Similar mindset"))

\* C12 witness: a result of the enhanced engine for which the goal, business
\* type and mindset reasons all trigger, next to one with no reason at all.
C12_Witness ==
    /\ ret.op = "engine_search" /\ ~ret.raised
    /\ \E i \in 1..Len(ret.value) :
          /\ WordIn(ret.query, ret.value[i].metadata, "mindset_pattern")
          /\ FocusIn(ret.query, ret.value[i].metadata)
          /\ ret.value[i].explanation
                = "Similar goal + Same business type + Similar mindset"
    /\ \E i \in 1..Len(ret.value) :
          ret.value[i].explanation = "Semantic similarity"

\* C13: when the remote upsert, query, delete or describe-stats call fails,
\* the operation returns its failure value (False for upsert and delete, the
\* empty sequence for search, a diagnostic value for stats) and the failure
\* does not reach the caller.
C13_RemoteFailureContained ==
    (constructed /\ use_pinecone) =>
        /\ (ret.op = "upsert" /\ ret.call_failed) => ret.value = FALSE
        /\ (ret.op = "search" /\ ret.call_failed) => ret.value = <<>>
        /\ (ret.op = "delete" /\ ret.io = "call_fails") => ret.value = FALSE
        /\ (ret.op = "stats" /\ ret.call_failed) =>
              /\ "error" \in DOMAIN ret.value
              /\ "raised" \notin DOMAIN ret.value

\* C13 witness: the index holds vectors and the query call of an unfiltered
\* search with topK >= 1 failed; the search returned the empty sequence.
C13_Witness ==
    /\ constructed /\ use_pinecone
    /\ index # <<>>
    /\ ret.op = "search" /\ ret.call_failed
    /\ ret.filters = NoFilter /\ ret.top_k >= 1
    /\ \E i \in 1..Len(index) : Len(index[i].values) = Len(ret.query_embedding)
    /\ ret.value = <<>>

\* C14: a local save (the write of upsert, the rewrite of delete) that fails
\* on a store holding records leaves the previously stored record set in
\* place: what a reader finds afterwards is the record set from before the
\* call, never an emptied or partly written one.
C14_FailedSaveKeepsRecords ==
    [][(/\ Local /\ Idle
        /\ file.parses /\ file.data # <<>>
        /\ ret'.op \in {"upsert", "delete"}
        /\ ret'.value = FALSE)
       => (file'.parses /\ file'.data = file.data)]_vars

\* C15: saving, on the Local Backend, the record set that load() gives for the
\* stored file (every record of which has a vector) leaves the stored content
\* unchanged: same records, same order.
C15_SaveLoadRoundTrip ==
    [][(/\ Local /\ Idle
        /\ file.parses
        /\ \A i \in 1..Len(file.data) : file.data[i].embedding # <<>>
        /\ ret'.op = "upsert" /\ ret'.value = TRUE
        /\ ret'.embeddings_data = _load_embeddings(file))
       => (file'.parses /\ file'.data = file.data)]_vars

\* the stored records whose vector has the length of the query vector
Comparable(data, query_embedding) ==
    SelectSeq(data, LAMBDA item : Len(item.embedding) = Len(query_embedding))

\* C16: when the local store holds a record whose (non-empty) vector differs
\* in length from the query's, next to records of the query's length, an
\* unfiltered search with topK >= 1 drops only the offending record: it
\* returns the best of the records of the right length, as many as topK
\* allows.
C16_MismatchedRecordDropped ==
    (/\ Local /\ ret.op = "search" /\ file.parses
     /\ ret.filters = NoFilter /\ ret.top_k >= 1
     /\ \A i \in 1..Len(file.data) : file.data[i].embedding # <<>>
     /\ Comparable(file.data, ret.query_embedding) # <<>>
     /\ Comparable(file.data, ret.query_embedding) # file.data)
    => /\ Len(ret.value)
            = Min(ret.top_k, Len(Comparable(file.data, ret.query_embedding)))
       /\ \A j \in 1..Len(ret.value) :
             \E i \in 1..Len(file.data) :
                /\ file.data[i].id = ret.value[j].id
                /\ Len(file.data[i].embedding) = Len(ret.query_embedding)

\* the records of data whose vector has length dim, in the order of data
OfDimension(data, dim) ==
    SelectSeq(data, LAMBDA item : Len(item.embedding) = dim)

\* C17 as claimed: after a load of a file holding records, every record of the
\* working set has the vector length of record 0, and the working set is the
\* file's records of that length, in file order.
C17_RecordZeroAuthoritative ==
    (ret.op = "app_search" /\ file.parses /\ file.data # <<>>) =>
        /\ \A i \in 1..Len(ret.embeddings_data) :
              Len(ret.embeddings_data[i].embedding) = Len(file.data[1].embedding)
        /\ ret.embeddings_data
              = OfDimension(file.data, Len(file.data[1].embedding))

\* C17 as amended: when record 0 has a vector (length D > 0), every record of
\* the working set has length D and the working set is the file's records of
\* length D, in file order; when record 0 has no vector the working set is
\* empty.
C17_RecordZeroWithVectorAuthoritative ==
    (ret.op = "app_search" /\ file.parses /\ file.data # <<>>) =>
        IF file.data[1].embedding = <<>>
        THEN ret.embeddings_data = <<>>
        ELSE /\ \A i \in 1..Len(ret.embeddings_data) :
                   Len(ret.embeddings_data[i].embedding)
                      = Len(file.data[1].embedding)
             /\ ret.embeddings_data
                   = OfDimension(file.data, Len(file.data[1].embedding))

\* C17 witness: the file holds two records of different vector lengths; the
\* load kept record 0 and left the other out.
C17_Witness ==
    /\ ret.op = "app_search"
    /\ file.parses /\ Len(file.data) = 2
    /\ file.data[1].embedding # <<>>
    /\ Len(file.data[2].embedding) # Len(file.data[1].embedding)
    /\ ret.embeddings_data = <<file.data[1]>>

\* no metadata field of the record is null
NoNull(item) ==
    \A k \in DOMAIN item.metadata :
        item.metadata[k] # (IF k = "urgency_level" THEN NoneInt ELSE None)

\* the Local Backend takes the record as a candidate under the filter
LocalAdmits(item, filters) == _matches_filters(item, filters).value

\* the Remote Backend takes the record as a candidate under the filter: the
\* index admits the vector upsert stores for it under the filter search sends
RemoteAdmits(item, filters) ==
    IndexAdmits(PineconeVector(item).value, PineconeFilter(filters))

\* C18: for the same stored records (without null fields) and the same
\* filter, the Local Backend and the Remote Backend admit the same records as
\* search candidates.
C18_BackendsAdmitSameRecords ==
    (Local /\ ret.op = "search" /\ file.parses) =>
        \A i \in 1..Len(file.data) :
            NoNull(file.data[i]) =>
                (LocalAdmits(file.data[i], ret.filters)
                    <=> RemoteAdmits(file.data[i], ret.filters))

\* C19: a search of a SemanticSearchEngine is answered from the record set the
\* file holds at the time of the search, that is, from the last successfully
\* saved record set, not from one read before that save.
C19_SearchReadsSavedRecords ==
    (ret.op = "basic_search" /\ ret.top_k >= 1 /\ file.parses) =>
        ret.answered_from = _load_embeddings(file)

\* no two stored records share an id, so that an id names a stored position
DistinctIds(data) ==
    \A i, j \in 1..Len(data) : data[i].id = data[j].id => i = j

PositionOf(data, id) == CHOOSE i \in 1..Len(data) : data[i].id = id

\* the stored record at position j is a candidate that the search left out
LeftOut(j) ==
    /\ LocalAdmits(file.data[j], ret.filters)
    /\ \A i \in 1..Len(ret.value) : ret.value[i].id # file.data[j].id

\* C20: in a local search, results of equal score appear in stored order, and
\* a candidate left out by the cut whose score equals that of a returned
\* result was stored after that result.
C20_TiesInInsertionOrder ==
    (Local /\ ret.op = "search" /\ file.parses /\ DistinctIds(file.data)) =>
        /\ \A i \in 1..(Len(ret.value) - 1) :
              ret.value[i].similarity_score = ret.value[i + 1].similarity_score
              => PositionOf(file.data, ret.value[i].id)
                    < PositionOf(file.data, ret.value[i + 1].id)
        /\ \A i \in 1..Len(ret.value) :
              \A j \in 1..Len(file.data) :
                 (/\ LeftOut(j)
                  /\ Dot(ret.query_embedding, file.data[j].embedding).value
                        = ret.value[i].similarity_score)
                 => PositionOf(file.data, ret.value[i].id) < j

\* C20 witness: two stored records score the same for the query and topK = 1
\* cuts between them; the one stored first is returned.
C20_Witness ==
    /\ Local /\ ret.op = "search" /\ file.parses
    /\ ret.filters = NoFilter /\ ret.top_k = 1
    /\ Len(file.data) = 2 /\ DistinctIds(file.data)
    /\ ~Dot(ret.query_embedding, file.data[1].embedding).raised
    /\ Dot(ret.query_embedding, file.data[1].embedding)
          = Dot(ret.query_embedding, file.data[2].embedding)
    /\ Len(ret.value) = 1
    /\ ret.value[1].id = file.data[1].id

----------------------------------------------------------------------------
(* Claims C21..C28 *)

SupportedKeys == {"business_focus", "urgency_level", "participant"}

\* C21: on the Remote Backend a supported filter is sent as a metadata filter
\* expression: business_focus and participant as an equality clause on the
\* field of the same name, urgency_level as a greater-than-or-equal clause;
\* no other key is sent, every returned match satisfies the clauses, and
\* absent, empty or wholly unsupported filters send the query unfiltered.
C21_RemoteFilterTranslation ==
    (constructed /\ use_pinecone /\ ret.op = "search") =>
        LET f    == ret.filters
            sent == ret.pinecone_filter
        IN  /\ DOMAIN sent = DOMAIN f \cap SupportedKeys
            /\ \A k \in DOMAIN f \cap {"business_focus", "participant"} :
                  sent[k] = f[k]
            /\ "urgency_level" \in DOMAIN f =>
                  sent["urgency_level"] = [gte |-> f["urgency_level"]]
            /\ \A i \in 1..Len(ret.value) :
                  LET r == ret.value[i]
                  IN  /\ "business_focus" \in DOMAIN f =>
                            r.metadata.business_focus = f["business_focus"]
                      /\ "participant" \in DOMAIN f =>
                            r.participant = f["participant"]
                      /\ "urgency_level" \in DOMAIN f =>
                            r.metadata.urgency_level >= f["urgency_level"]
            /\ DOMAIN f \cap SupportedKeys = {} =>
                  ret.value = _search_pinecone(index, ret.query_embedding,
                                               ret.top_k, NoFilter,
                                               ~ret.call_failed)

\* C21 witness: a remote search whose only filter key is unsupported was sent
\* unfiltered and returned a match, and the index also holds a vector that an
\* urgency filter of 4 would have excluded.
C21_Witness ==
    /\ constructed /\ use_pinecone
    /\ ret.op = "search" /\ ~ret.call_failed
    /\ ret.filters = [mindset_pattern |-> <<"a">>]
    /\ ret.pinecone_filter = <<>>
    /\ \E i \in 1..Len(ret.value) : ret.value[i].metadata.urgency_level < 4

\* C22: no core operation raises to its caller: on any store state and for
\* any arguments the Search Engine's search, search by business types, search
\* by urgency and similar-participants lookup complete with a return value
\* (the Facade's upsert, search, delete and stats have no raising outcome).
C22_NoOperationRaises ==
    ret.op \in {"engine_search", "search_by_urgency", "similar",
                "business_filter_search"}
        => ~ret.raised

\* the positions of the transcripts whose extraction succeeded
Succeeded(outcomes) == {i \in DOMAIN outcomes : outcomes[i] = "ok"}

\* the position of the j-th transcript whose extraction succeeded
NthSucceeded(outcomes, j) ==
    CHOOSE i \in Succeeded(outcomes) :
        Cardinality({m \in Succeeded(outcomes) : m <= i}) = j

\* C23: with the extraction provider available, whatever subset of the
\* transcripts fails to extract, every transcript is given to the provider in
\* input order (a failure does not stop the later ones), and a call that
\* returns gives, and has saved to the insights file, exactly one insight per
\* transcript whose extraction succeeded, in input order.
C23_SkipAndContinue ==
    (ret.op = "process_all_transcripts" /\ "transcripts" \in DOMAIN ret) =>
        /\ ret.calls = [i \in 1..Len(ret.transcripts) |-> ret.transcripts[i].id]
        /\ ~ret.raised =>
              /\ Len(ret.value) = Cardinality(Succeeded(ret.outcomes))
              /\ \A j \in 1..Len(ret.value) :
                    LET t == ret.transcripts[NthSucceeded(ret.outcomes, j)]
                    IN  /\ ret.value[j].id = t.id
                        /\ ret.value[j].participant = t.participant
                        /\ ret.value[j].primary_goal = t.transcript
              /\ insights_file = JsonFile(ret.value)

\* C23 witness: of three transcripts the first failed at the provider and
\* the third gave unparsable text; the call returned the second alone and
\* saved it.
C23_Witness ==
    /\ ret.op = "process_all_transcripts" /\ ret.available
    /\ "transcripts" \in DOMAIN ret /\ Len(ret.transcripts) = 3
    /\ ret.outcomes[1] = "generate_fails"
    /\ ret.outcomes[2] = "ok"
    /\ ret.outcomes[3] = "bad_json"
    /\ ~ret.raised
    /\ Len(ret.value) = 1 /\ ret.value[1].id = ret.transcripts[2].id
    /\ Len(ret.calls) = 3
    /\ insights_file = JsonFile(ret.value)

\* ceil(n / 100)
CeilHundredths(n) ==
    CHOOSE c \in 0..n : c * 100 >= n /\ (c = 0 \/ (c - 1) * 100 < n)

\* the ids of the vectors sent, call after call
SentIds(calls) ==
    LET all == Flatten(calls) IN [i \in 1..Len(all) |-> all[i].id]

\* C24: a remote upsert of n records in which no record fails to prepare and
\* no call fails sends the records in ceil(n/100) upsert calls of at most 100
\* records each, every record exactly once and in input order, and returns
\* True; for n = 0 it makes no call and returns True.
C24_RemoteUpsertBatching ==
    (ret.op = "upsert" /\ "calls" \in DOMAIN ret
         /\ ret.null_at = 0 /\ ~ret.call_failed) =>
        /\ Len(ret.calls) = CeilHundredths(ret.n)
        /\ \A j \in 1..Len(ret.calls) :
              Len(ret.calls[j]) >= 1 /\ Len(ret.calls[j]) <= 100
        /\ SentIds(ret.calls) = [i \in 1..ret.n |-> <<i>>]
        /\ ret.value = TRUE

\* C24 witness: 201 records went out in three calls of 100, 100 and 1
\* records, and the operation returned True.
C24_Witness ==
    /\ ret.op = "upsert" /\ "calls" \in DOMAIN ret
    /\ ret.null_at = 0 /\ ~ret.call_failed /\ ret.value = TRUE
    /\ ret.n = 201
    /\ Len(ret.calls) = 3
    /\ Len(ret.calls[1]) = 100 /\ Len(ret.calls[2]) = 100 /\ Len(ret.calls[3]) = 1
    /\ Len(index) >= 201

\* the ids of the vectors the index holds
IndexIds(idx) == {idx[i].id : i \in 1..Len(idx)}

\* the vector the index holds under an id
IndexVector(idx, id) == idx[CHOOSE i \in 1..Len(idx) : idx[i].id = id]

\* C28: a remote upsert is not all-or-nothing. When the call for batch j
\* fails, the batches before j have been accepted and stay in the index (the
\* first 100 * (j - 1) records, with their new vectors), no record from batch
\* j onward is in the index unless it was there before, with its old vector,
\* and the operation returns False; when a record fails to prepare, no call
\* is made, the index is as before and the operation returns False.
C28_RemoteUpsertPartial ==
    (ret.op = "upsert" /\ "calls" \in DOMAIN ret) =>
        /\ ret.call_failed =>
              LET written == 100 * (ret.fail_batch - 1)
              IN  /\ ret.null_at = 0
                  /\ ret.value = FALSE
                  /\ Len(ret.calls) = ret.fail_batch - 1
                  /\ SentIds(ret.calls) = [i \in 1..written |-> <<i>>]
                  /\ IndexIds(index)
                        = IndexIds(ret.before) \cup {<<i>> : i \in 1..written}
                  /\ \A i \in 1..written :
                        IndexVector(index, <<i>>).values = BulkRecord(i).embedding
                  /\ \A id \in IndexIds(ret.before) \ {<<i>> : i \in 1..written} :
                        IndexVector(index, id) = IndexVector(ret.before, id)
        /\ ret.null_at # 0 =>
              /\ ret.value = FALSE
              /\ ret.calls = <<>>
              /\ index = ret.before

\* C28 witness: of a load of at least 200 records the second call failed;
\* the first 100 records are in the index, record 101 is not, the older
\* vector of record 1 has been replaced, and the operation returned False.
C28_Witness ==
    /\ ret.op = "upsert" /\ "calls" \in DOMAIN ret
    /\ ret.call_failed /\ ret.fail_batch = 2 /\ ret.n >= 200
    /\ ret.value = FALSE
    /\ ret.before = Preloaded
    /\ <<100>> \in IndexIds(index) /\ <<101>> \notin IndexIds(index)
    /\ IndexVector(ret.before, <<1>>).values = <<0, 1>>
    /\ IndexVector(index, <<1>>).values = <<1, 0>>

\* the file after one caller's whole call, run alone on file f
AloneOn(f, call) ==
    IF call.op = "delete" THEN DeleteLocal(f, call.id, "ok").file
    ELSE _upsert_local(f, call.data, "ok").file

\* the files two calls leave when one runs after the other, in either order
SerialOutcomes(f, first, second) ==
    {AloneOn(AloneOn(f, first), second), AloneOn(AloneOn(f, second), first)}

BothSucceeded ==
    \A p \in Writers : writers.w[p].pc = "done" /\ writers.w[p].value = TRUE

\* C25: the Local Backend takes no lock. When the whole-file read and write
\* steps of two calls interleave, both calls can return True while the effect
\* of one is lost; when no write lands between another call's read and write
\* (a single writer at a time), two successful calls always leave the file
\* that running them one after the other leaves.
C25_SingleWriterKeepsUpdates ==
    (BothSucceeded /\ ~writers.overlapped) =>
        file \in SerialOutcomes(writers.file0, writers.w[1], writers.w[2])

\* C25 witness: two deletes of distinct stored ids interleaved, both returned
\* True, and a deleted record is still in the file, which no serial order of
\* the two calls leaves.
C25_Witness ==
    /\ BothSucceeded /\ writers.overlapped
    /\ writers.w[1].op = "delete" /\ writers.w[2].op = "delete"
    /\ writers.w[1].id # writers.w[2].id
    /\ \A p \in Writers :
          \E i \in 1..Len(writers.file0.data) :
              writers.file0.data[i].id = writers.w[p].id
    /\ \E p \in Writers : \E i \in 1..Len(file.data) :
          file.data[i].id = writers.w[p].id
    /\ file \notin SerialOutcomes(writers.file0, writers.w[1], writers.w[2])

\* the positions of the records of data whose id is not the given one
KeptPositions(data, id) == {i \in 1..Len(data) : data[i].id # id}

\* the position of the j-th such record
NthKept(data, id, j) ==
    CHOOSE i \in KeptPositions(data, id) :
        Cardinality({m \in KeptPositions(data, id) : m <= i}) = j

ReadOnlyOperations ==
    {"search", "stats", "engine_search", "search_by_urgency", "similar",
     "business_filter_search"}

\* C26: a successful local delete(id) leaves in the file exactly the records
\* whose id differs from the given one, each with its content and in their
\* earlier relative order; search, stats and the Search Engine's searches
\* leave the stored record set (file and index) as it was.
C26_DeleteFrame ==
    [][/\ (/\ Local /\ Idle /\ ret'.op = "delete" /\ ret'.value = TRUE)
            => /\ file'.parses
               /\ Len(file'.data) = Cardinality(KeptPositions(file.data, ret'.id))
               /\ \A j \in 1..Len(file'.data) :
                     file'.data[j] = file.data[NthKept(file.data, ret'.id, j)]
       /\ (Idle /\ ret'.op \in ReadOnlyOperations)
            => (file' = file /\ index' = index)]_vars

\* C26 witness: a local delete on a file of two records returned True and
\* left one record, whose id is not the deleted one.
C26_Witness ==
    /\ Local
    /\ ret.op = "delete" /\ ret.value = TRUE /\ ret.io = "ok"
    /\ ret.before = 2
    /\ Len(file.data) = 1 /\ file.data[1].id # ret.id

\* C27: once construction has returned the active backend never changes: no
\* upsert, search, delete or stats call, a call on which the remote index
\* fails included, turns a remote-backed store into a local one or a local
\* one into a remote one.
C27_BackendFixedAfterConstruction ==
    [][constructed =>
          /\ constructed'
          /\ use_pinecone' = use_pinecone
          /\ has_index' = has_index
          /\ has_local_path' = has_local_path]_vars

\* C27 witness: on a remote-backed store holding vectors the delete call of
\* the index failed; the store is still remote-backed.
C27_Witness ==
    /\ constructed /\ use_pinecone /\ has_index /\ ~has_local_path
    /\ index # <<>>
    /\ ret.op = "delete" /\ ret.io = "call_fails" /\ ret.value = FALSE

====
